---------------------------- MODULE Spec2Model ----------------------------
(***************************************************************************)
(* Model of tags.py: the batch tagger that reads the file "versions",      *)
(* drops its first five lines, parses every remaining line into            *)
(* (product, version, commit), skips the excluded products and drives      *)
(* "git checkout <commit>" / "git tag <product>/<version>" for the rest,   *)
(* finishing with "git checkout master".                                   *)
(*                                                                         *)
(* A Python str is a sequence of one-character strings, so that strip,     *)
(* split and the regular expression are computed character by character.   *)
(* subprocess.run is a call that starts the child and yields its exit      *)
(* status; the status is the environment's choice.                         *)
(***************************************************************************)
EXTENDS Integers, Sequences, FiniteSets, TLC

\* ------------------------------------------------------------------ bounds
MaxEntries == 2
MaxNameLen == 7

\* ------------------------------------------------------- program constants
HeaderLines == 5

CsharpSdk == <<"c", "s", "h", "a", "r", "p", "-", "s", "d", "k">>
TsSdk == <<"t", "s", "-", "s", "d", "k">>
Pond == <<"p", "o", "n", "d">>
RustSdk == <<"r", "u", "s", "t", "-", "s", "d", "k">>
Main == <<"m", "a", "i", "n">>

Master == <<"m", "a", "s", "t", "e", "r">>

ExclusionSetWithoutPond == {CsharpSdk, TsSdk, RustSdk}

ExclusionSet == {CsharpSdk, TsSdk, Pond, RustSdk}

CheckoutCheckOff == FALSE

\* line 20: check=True
CheckoutCheck == TRUE

TagCheckOn == TRUE

\* line 21: no check argument, so check=False
TagCheck == FALSE

\* ------------------------------------------------------------ str helpers
Digits == {"0", "1", "2", "3", "4", "5", "6", "7", "8", "9"}

\* the ASCII whitespace str.strip() removes that the inputs can contain
Whitespace == {" ", "\t", "\n", "\r", "\f"}

RECURSIVE LStrip(_)
LStrip(s) ==
    IF s # <<>> /\ Head(s) \in Whitespace THEN LStrip(Tail(s)) ELSE s

RECURSIVE RStrip(_)
RStrip(s) ==
    IF s # <<>> /\ s[Len(s)] \in Whitespace
    THEN RStrip(SubSeq(s, 1, Len(s) - 1))
    ELSE s

\* str.strip()
Strip(s) == RStrip(LStrip(s))

RECURSIVE SplitFrom(_, _, _)
SplitFrom(s, i, cur) ==
    IF i > Len(s) THEN <<cur>>
    ELSE IF s[i] = " " THEN <<cur>> \o SplitFrom(s, i + 1, <<>>)
    ELSE SplitFrom(s, i + 1, Append(cur, s[i]))

\* str.split(" "): one field more than there are spaces, empty fields kept
Split(s) == SplitFrom(s, 1, <<>>)

SliceShort(s, n) == IF Len(s) <= n - 1 THEN <<>> ELSE SubSeq(s, n, Len(s))

\* versions[5:] : a slice past the end is empty, never an error
Slice(s, n) == IF Len(s) <= n THEN <<>> ELSE SubSeq(s, n + 1, Len(s))

\* --------------------------------------------------------------------- RGX
None == <<"None">>

\* [0-9]+ is greedy: position just after the longest run of digits from p
RECURSIVE DigitRunEnd(_, _)
DigitRunEnd(s, p) ==
    IF p <= Len(s) /\ s[p] \in Digits THEN DigitRunEnd(s, p + 1) ELSE p

\* [0-9]+\.[0-9]+\.[0-9]+ tried at position p: the position just after the
\* match, 0 when it does not match.  A shorter digit run never helps, as the
\* character after a maximal run is not a digit while the pattern wants "."
\* or nothing at all.
VersionEnd(s, p) ==
    LET e1 == DigitRunEnd(s, p)
        e2 == DigitRunEnd(s, e1 + 1)
        e3 == DigitRunEnd(s, e2 + 1)
    IN  IF e1 = p \/ e1 > Len(s) \/ s[e1] # "." THEN 0
        ELSE IF e2 = e1 + 1 \/ e2 > Len(s) \/ s[e2] # "." THEN 0
        ELSE IF e3 = e2 + 1 THEN 0
        ELSE e3

\* (.*) is greedy and "." does not match a newline: longest prefix it can take
RECURSIVE DotStarMax(_, _)
DotStarMax(s, i) ==
    IF i < Len(s) /\ s[i + 1] # "\n" THEN DotStarMax(s, i + 1) ELSE i

\* backtracking of (.*): group 1 is s[1..i], tried from the longest down
RECURSIVE RGXTry(_, _)
RGXTry(s, i) ==
    IF i < 0 THEN None
    ELSE IF i + 1 <= Len(s) /\ s[i + 1] = "-" /\ VersionEnd(s, i + 2) # 0
         THEN <<SubSeq(s, 1, i), SubSeq(s, i + 2, VersionEnd(s, i + 2) - 1)>>
         ELSE RGXTry(s, i - 1)

RECURSIVE RGXTryLazy(_, _)
RGXTryLazy(s, i) ==
    IF i > Len(s) THEN None
    ELSE IF i + 1 <= Len(s) /\ s[i + 1] = "-" /\ VersionEnd(s, i + 2) # 0
         THEN <<SubSeq(s, 1, i), SubSeq(s, i + 2, VersionEnd(s, i + 2) - 1)>>
         ELSE RGXTryLazy(s, i + 1)

RGXmatchLazy(s) == RGXTryLazy(s, 0)

\* RGX.match(name): anchored at the start only; None, or the two groups
RGXmatch(s) == RGXTry(s, DotStarMax(s, 0))

\* name, commit = version.split(" ") raises ValueError unless two fields
UnpackRaisesLoose(fields) == Len(fields) < 2

UnpackRaises(fields) == Len(fields) # 2

\* RGX.match(name).groups() raises AttributeError on None
GroupsRaises(m) == m = None

\* f"{product}/{version}"
TagNameDash(p, v) == p \o <<"-">> \o v

TagName(p, v) == p \o <<"/">> \o v

\* subprocess.run(..., check=c) raises CalledProcessError iff c and rc # 0
RunRaises(check, rc) == check /\ rc # 0

Statuses == {0, 1}

\* -------------------------------------------------------------- the inputs
LFoo == <<"f", "o", "o", "-", "1", ".", "0", ".", "0", " ", "a", "b", "c", "\n">>
LBar == <<" ", " ", "b", "a", "r", "-", "2", ".", "1", "0", ".", "3", " ", "d", "e", "a", "d", " ", "\t", "\n">>
LPond == <<"p", "o", "n", "d", "-", "2", ".", "0", ".", "0", " ", "c", "1", "\n">>
LTsSdk == <<"t", "s", "-", "s", "d", "k", "-", "1", ".", "2", ".", "3", " ", "c", "2", "\n">>
LPondX == <<"p", "o", "n", "d", "/", "x", "-", "1", ".", "0", ".", "0", " ", "c", "3", "\n">>
LWeird == <<"w", "e", "i", "r", "d", "_", "n", "a", "m", "e", "_", "n", "o", "_", "v", "e", "r", "s", "i", "o", "n", " ", "c", "4", "\n">>
LNoCommit == <<"f", "o", "o", "-", "1", ".", "0", ".", "0", "\n">>
LThree == <<"f", "o", "o", "-", "1", ".", "0", ".", "0", " ", "a", " ", "b", "\n">>
HJunk == <<"#", " ", "v", "e", "r", "s", "i", "o", "n", "s", "\n">>
HEntry == <<"h", "d", "r", "-", "9", ".", "9", ".", "9", " ", "z", "z", "z", "\n">>
NNested == <<"a", "-", "1", ".", "2", ".", "3", "-", "4", ".", "5", ".", "6">>
NRc == <<"f", "o", "o", "-", "1", ".", "0", ".", "0", "-", "r", "c", "1">>
NFour == <<"f", "o", "o", "-", "1", ".", "0", ".", "0", ".", "4">>
NCsharp == <<"c", "s", "h", "a", "r", "p", "-", "s", "d", "k", "-", "9", ".", "9", ".", "9">>
NRust == <<"r", "u", "s", "t", "-", "s", "d", "k", "-", "0", ".", "1", ".", "0">>
NPond == <<"p", "o", "n", "d", "-", "2", ".", "0", ".", "0">>
NTs == <<"t", "s", "-", "s", "d", "k", "-", "1", ".", "2", ".", "3">>

EntryPool == {LFoo, LBar, LPond, LTsSdk, LPondX, LWeird, LNoCommit, LThree}

HeaderPool == {HJunk, HEntry}

SeqsUpTo(S, n) == UNION {[1..k -> S] : k \in 0..n}

\* files of fewer than HeaderLines lines, and files with a full header
\* followed by up to MaxEntries entry lines
Files ==
    UNION {[1..k -> HeaderPool] : k \in 0..(HeaderLines - 1)}
    \cup {h \o e : h \in [1..HeaderLines -> HeaderPool],
                   e \in SeqsUpTo(EntryPool, MaxEntries)}

NameAlphabet == {"a", "-", "1", "."}

NamePool == {NNested, NRc, NFour, NCsharp, NRust, NPond, NTs}

Names == SeqsUpTo(NameAlphabet, MaxNameLen) \cup NamePool

Header5 == [k \in 1..HeaderLines |-> HJunk]

\* a full header and one line "<name> c"
NameFiles == {Header5 \o <<n \o <<" ", "c", "\n">> >> : n \in Names}

\* ---------------------------------------------------------------- the state
VARIABLES fileExists, file, versions, pc, idx, name, commit, product,
          version, printed, calls, error, exit

vars == <<fileExists, file, versions, pc, idx, name, commit, product,
          version, printed, calls, error, exit>>

Unbound == <<"unbound">>

Running == "running"

InitRest ==
    /\ versions = Unbound
    /\ pc = "open"
    /\ idx = 0
    /\ name = Unbound
    /\ commit = Unbound
    /\ product = Unbound
    /\ version = Unbound
    /\ printed = <<>>
    /\ calls = <<>>
    /\ error = "none"
    /\ exit = Running

Init ==
    /\ \/ fileExists = TRUE /\ file \in Files
       \/ fileExists = FALSE /\ file = <<>>
    /\ InitRest

InitNames ==
    /\ \/ fileExists = TRUE /\ file \in NameFiles
       \/ fileExists = FALSE /\ file = <<>>
    /\ InitRest

Call(op, arg, rc) == [op |-> op, arg |-> arg, status |-> rc, entry |-> idx]

CrashZero(e) ==
    /\ pc' = "crashed"
    /\ error' = e
    /\ exit' = "0"

\* an uncaught exception ends the interpreter with exit status 1
Crash(e) ==
    /\ pc' = "crashed"
    /\ error' = e
    /\ exit' = "1"

\* lines 6-8: open, readlines, drop the header
Open ==
    /\ pc = "open"
    /\ fileExists
    /\ versions' = Slice(file, HeaderLines)
    /\ pc' = "loop"
    /\ UNCHANGED <<fileExists, file, idx, name, commit, product, version,
                   printed, calls, error, exit>>

\* line 6: open("versions") raises when the file is missing
OpenFail ==
    /\ pc = "open"
    /\ ~fileExists
    /\ Crash("FileNotFoundError")
    /\ UNCHANGED <<fileExists, file, versions, idx, name, commit, product,
                   version, printed, calls>>

\* line 10: the for loop is exhausted
LoopEnd ==
    /\ pc = "loop"
    /\ idx = Len(versions)
    /\ pc' = "final"
    /\ UNCHANGED <<fileExists, file, versions, idx, name, commit, product,
                   version, printed, calls, error, exit>>

Stripped == Strip(versions[idx + 1])

Fields == Split(Stripped)

\* lines 10-12: the unpacking of the split raises ValueError
UnpackFail ==
    /\ pc = "loop"
    /\ idx < Len(versions)
    /\ UnpackRaises(Fields)
    /\ idx' = idx + 1
    /\ version' = Stripped
    /\ Crash("ValueError")
    /\ UNCHANGED <<fileExists, file, versions, name, commit, product,
                   printed, calls>>

\* lines 10-13: the name does not match RGX
MatchFail ==
    /\ pc = "loop"
    /\ idx < Len(versions)
    /\ ~UnpackRaises(Fields)
    /\ GroupsRaises(RGXmatch(Fields[1]))
    /\ idx' = idx + 1
    /\ version' = Stripped
    /\ name' = Fields[1]
    /\ commit' = Fields[2]
    /\ Crash("AttributeError")
    /\ UNCHANGED <<fileExists, file, versions, product, printed, calls>>

\* lines 10-16: the product is excluded, continue
Skip ==
    /\ pc = "loop"
    /\ idx < Len(versions)
    /\ ~UnpackRaises(Fields)
    /\ ~GroupsRaises(RGXmatch(Fields[1]))
    /\ RGXmatch(Fields[1])[1] \in ExclusionSet
    /\ idx' = idx + 1
    /\ name' = Fields[1]
    /\ commit' = Fields[2]
    /\ product' = RGXmatch(Fields[1])[1]
    /\ version' = RGXmatch(Fields[1])[2]
    /\ UNCHANGED <<fileExists, file, versions, pc, printed, calls, error,
                   exit>>

\* lines 10-18: the entry is kept and printed
Process ==
    /\ pc = "loop"
    /\ idx < Len(versions)
    /\ ~UnpackRaises(Fields)
    /\ ~GroupsRaises(RGXmatch(Fields[1]))
    /\ RGXmatch(Fields[1])[1] \notin ExclusionSet
    /\ idx' = idx + 1
    /\ name' = Fields[1]
    /\ commit' = Fields[2]
    /\ product' = RGXmatch(Fields[1])[1]
    /\ version' = RGXmatch(Fields[1])[2]
    /\ printed' = Append(printed, <<product', version', commit'>>)
    /\ pc' = "checkout"
    /\ UNCHANGED <<fileExists, file, versions, calls, error, exit>>

\* line 20: git checkout <commit>, check=True
Checkout ==
    /\ pc = "checkout"
    /\ \E rc \in Statuses :
        /\ calls' = Append(calls, Call("checkout", commit, rc))
        /\ IF RunRaises(CheckoutCheck, rc)
           THEN Crash("CalledProcessError")
           ELSE pc' = "tag" /\ UNCHANGED <<error, exit>>
    /\ UNCHANGED <<fileExists, file, versions, idx, name, commit, product,
                   version, printed>>

\* line 21: git tag <product>/<version>, status not checked
Tag ==
    /\ pc = "tag"
    /\ \E rc \in Statuses :
        /\ calls' = Append(calls, Call("tag", TagName(product, version), rc))
        /\ IF RunRaises(TagCheck, rc)
           THEN Crash("CalledProcessError")
           ELSE pc' = "loop" /\ UNCHANGED <<error, exit>>
    /\ UNCHANGED <<fileExists, file, versions, idx, name, commit, product,
                   version, printed>>

\* line 24: git checkout master, status not checked, then the script ends
FinalCheckout ==
    /\ pc = "final"
    /\ \E rc \in Statuses :
        calls' = Append(calls, [op |-> "checkout", arg |-> Master,
                                status |-> rc, entry |-> 0])
    /\ pc' = "done"
    /\ exit' = "0"
    /\ UNCHANGED <<fileExists, file, versions, idx, name, commit, product,
                   version, printed, error>>

Next ==
    \/ Open
    \/ OpenFail
    \/ LoopEnd
    \/ UnpackFail
    \/ MatchFail
    \/ Skip
    \/ Process
    \/ Checkout
    \/ Tag
    \/ FinalCheckout

Spec == Init /\ [][Next]_vars

SpecNames == InitNames /\ [][Next]_vars

\* ------------------------------------------------- vocabulary of the claims
\* the products the specification lists as excluded
ClaimedExcluded == {CsharpSdk, TsSdk, Pond, RustSdk}

\* number of lines after the header, and the k-th of them
NumEntries == IF Len(file) > HeaderLines THEN Len(file) - HeaderLines ELSE 0

EntryLine(k) == file[HeaderLines + k]

\* a line has been fetched by the loop
Fetched(k) == pc \notin {"open"} /\ fileExists /\ k <= idx

LineFields(l) == Split(Strip(l))

LineParses(l) ==
    /\ Len(LineFields(l)) = 2
    /\ RGXmatch(LineFields(l)[1]) # None

LineName(l) == LineFields(l)[1]

LineCommit(l) == LineFields(l)[2]

LineProduct(l) == RGXmatch(LineFields(l)[1])[1]

LineVersion(l) == RGXmatch(LineFields(l)[1])[2]

Slashed(p, v) == p \o <<"/">> \o v

\* the branch the specification names for the final checkout
MasterRef == <<"m", "a", "s", "t", "e", "r">>

CallIdx == 1..Len(calls)

IsPrefix(p, s) == Len(p) <= Len(s) /\ SubSeq(s, 1, Len(p)) = p

EntryCall(j) == calls[j].entry > 0

FinalCall(j) ==
    /\ calls[j].entry = 0
    /\ calls[j].op = "checkout"
    /\ calls[j].arg = MasterRef

Terminated == pc \in {"done", "crashed"}

\* ----------------------------------------------------------------------- C1
\* C1: every line after the header that parses, is not excluded and whose
\* checkout succeeded has exactly one checkout call, for its commit,
\* immediately followed by its only tag call, named product/version; the
\* calls of the entries appear in input-line order.
C1_CheckoutThenTagInOrder ==
    /\ \A k \in 1..NumEntries :
        (/\ Fetched(k)
         /\ LineParses(EntryLine(k))
         /\ LineProduct(EntryLine(k)) \notin ClaimedExcluded
         /\ \E j \in CallIdx : /\ calls[j].entry = k
                               /\ calls[j].op = "checkout"
                               /\ calls[j].status = 0
         /\ (k < idx \/ pc # "tag"))
        => \E j \in 1..(Len(calls) - 1) :
            /\ calls[j].entry = k
            /\ calls[j].op = "checkout"
            /\ calls[j].arg = LineCommit(EntryLine(k))
            /\ calls[j + 1].entry = k
            /\ calls[j + 1].op = "tag"
            /\ calls[j + 1].arg = Slashed(LineProduct(EntryLine(k)),
                                          LineVersion(EntryLine(k)))
            /\ \A i \in CallIdx : calls[i].entry = k => i \in {j, j + 1}
    /\ \A i, j \in CallIdx :
        (i < j /\ EntryCall(i) /\ EntryCall(j)) => calls[i].entry <= calls[j].entry
    /\ \A i, j \in CallIdx : (i < j /\ EntryCall(j)) => EntryCall(i)

\* two entries were tagged one after the other and the run finished
C1_Witness ==
    /\ pc = "done"
    /\ Len(calls) = 5
    /\ calls[1].entry = 1 /\ calls[1].op = "checkout"
    /\ calls[2].entry = 1 /\ calls[2].op = "tag"
    /\ calls[3].entry = 2 /\ calls[3].op = "checkout"
    /\ calls[4].entry = 2 /\ calls[4].op = "tag"
    /\ calls[2].arg # calls[4].arg

\* ----------------------------------------------------------------------- C2
\* C2: a failed entry checkout is the last external call of the run: no tag
\* for that entry, nothing for later entries, no final checkout of master,
\* and the run has halted.
C2_CheckoutFailureHalts ==
    \A j \in CallIdx :
        (EntryCall(j) /\ calls[j].op = "checkout" /\ calls[j].status # 0)
        => /\ j = Len(calls)
           /\ pc = "crashed"
           /\ error = "CalledProcessError"

\* a checkout failed while lines were still left in the file
C2_Witness ==
    /\ Len(calls) >= 1
    /\ calls[Len(calls)].op = "checkout"
    /\ calls[Len(calls)].status # 0
    /\ calls[Len(calls)].entry > 0
    /\ calls[Len(calls)].entry < NumEntries
    /\ LineParses(EntryLine(NumEntries))
    /\ LineProduct(EntryLine(NumEntries)) \notin ClaimedExcluded

\* ----------------------------------------------------------------------- C3
\* C3 as stated: an excluded entry gets no call and the loop goes on, and no
\* tag name at all begins with an excluded product followed by "/".
C3_NoCallForExcluded ==
    \A k \in 1..NumEntries :
        (/\ Fetched(k)
         /\ LineParses(EntryLine(k))
         /\ LineProduct(EntryLine(k)) \in ClaimedExcluded)
        => /\ \A j \in CallIdx : calls[j].entry # k
           /\ (k = idx => pc \in {"loop", "final", "done"} /\ error = "none")

C3_Original ==
    /\ C3_NoCallForExcluded
    /\ \A j \in CallIdx :
        calls[j].op = "tag"
        => \A e \in ClaimedExcluded : ~IsPrefix(e \o <<"/">>, calls[j].arg)

\* C3 amended: an excluded entry gets no call and the loop goes on, and no
\* tag name is an excluded product followed by "/" and the version of its
\* line.
C3_Amended ==
    /\ C3_NoCallForExcluded
    /\ \A j \in CallIdx :
        calls[j].op = "tag"
        => /\ LineProduct(EntryLine(calls[j].entry)) \notin ClaimedExcluded
           /\ \A e \in ClaimedExcluded :
                calls[j].arg # Slashed(e, LineVersion(EntryLine(calls[j].entry)))

\* an excluded line was skipped and the line after it was tagged
C3_Witness ==
    /\ idx >= 2
    /\ LineParses(EntryLine(idx - 1))
    /\ LineProduct(EntryLine(idx - 1)) \in ClaimedExcluded
    /\ Len(calls) >= 1
    /\ calls[Len(calls)].op = "tag"
    /\ calls[Len(calls)].entry = idx

\* ----------------------------------------------------------------------- C4
\* the calls the loop has issued for the lines before the k-th, whatever the
\* tag calls returned
RECURSIVE PlainCallsUpTo(_)
PlainCallsUpTo(k) ==
    IF k = 0 THEN <<>>
    ELSE PlainCallsUpTo(k - 1) \o
         (IF LineParses(EntryLine(k))
             /\ LineProduct(EntryLine(k)) \notin ClaimedExcluded
          THEN << <<"checkout", LineCommit(EntryLine(k))>>,
                  <<"tag", Slashed(LineProduct(EntryLine(k)),
                                   LineVersion(EntryLine(k)))>> >>
          ELSE <<>>)

PlainCalls == [j \in CallIdx |-> <<calls[j].op, calls[j].arg>>]

\* C4: a failed tag call is not fatal (the run goes on to the next line and
\* can only stop there for that line's own parse failure); the calls issued
\* so far are those of the lines gone through, whatever the tag calls
\* returned.
C4_TagFailureTolerated ==
    /\ \A j \in CallIdx :
        (calls[j].op = "tag" /\ calls[j].status # 0 /\ j = Len(calls))
        => /\ error # "CalledProcessError"
           /\ pc = "crashed" => idx > calls[j].entry
    /\ (pc = "loop" /\ fileExists /\ idx <= NumEntries)
        => PlainCalls = PlainCallsUpTo(idx)
    /\ (pc = "done" /\ idx <= NumEntries)
        => PlainCalls = PlainCallsUpTo(idx) \o << <<"checkout", MasterRef>> >>

\* a tag call failed and the next line was checked out and tagged
C4_Witness ==
    \E j \in CallIdx :
        /\ calls[j].op = "tag"
        /\ calls[j].status # 0
        /\ j + 2 <= Len(calls)
        /\ calls[j + 1].op = "checkout" /\ calls[j + 1].entry > calls[j].entry
        /\ calls[j + 2].op = "tag"

\* ----------------------------------------------------------------------- C5
NoFatalAbort == fileExists /\ pc # "crashed"

SpaceCount(s) == Cardinality({i \in 1..Len(s) : s[i] = " "})

\* the line fails a parse step of lines 12-13
FailsParse(l) ==
    \/ SpaceCount(Strip(l)) # 1
    \/ RGXmatch(LineFields(l)[1]) = None

\* C6: a line after the header that fails a parse step aborts the run at
\* that line: no call for it or for a later line, no final checkout, and
\* the calls of the earlier lines stand.
C6_ParseFailureAborts ==
    \A k \in 1..NumEntries :
        (Fetched(k) /\ FailsParse(EntryLine(k)))
        => /\ k = idx
           /\ pc = "crashed"
           /\ error \in {"ValueError", "AttributeError"}
           /\ exit = "1"
           /\ \A j \in CallIdx : calls[j].entry \in 1..(k - 1)
           /\ PlainCalls = PlainCallsUpTo(k - 1)

\* a line failed to parse after an earlier line was tagged, with lines left
C6_Witness ==
    /\ pc = "crashed"
    /\ error \in {"ValueError", "AttributeError"}
    /\ idx = 2
    /\ Len(calls) = 2
    /\ SpaceCount(Strip(EntryLine(idx))) > 1

\* ----------------------------------------------------------------------- C7
EntryCheckoutFailed ==
    \E j \in CallIdx :
        EntryCall(j) /\ calls[j].op = "checkout" /\ calls[j].status # 0

ParseStepFailed ==
    /\ fileExists
    /\ pc # "open"
    /\ \E k \in 1..idx : FailsParse(versions[k])

TagFailures == Cardinality({j \in CallIdx : calls[j].op = "tag" /\ calls[j].status # 0})

ExitsOnlyWhenTerminated == (exit # Running) <=> Terminated

ZeroExitAfterMaster ==
    exit = "0" => Len(calls) >= 1 /\ FinalCall(Len(calls))

HeaderCommit == <<"z", "z", "z">>

HeaderTag == <<"h", "d", "r", "/", "9", ".", "9", ".", "9">>

\* C10: the header lines cause neither a parse failure nor a call; a file
\* of at most five lines runs to the end with the final checkout of master
\* as its only call.
C10_HeaderIgnored ==
    /\ \A j \in CallIdx : calls[j].arg \notin {HeaderCommit, HeaderTag}
    /\ error \in {"ValueError", "AttributeError"}
        => /\ idx \in 1..NumEntries
           /\ FailsParse(EntryLine(idx))
    /\ (fileExists /\ Len(file) <= HeaderLines)
        => /\ pc # "crashed"
           /\ idx = 0
           /\ printed = <<>>
           /\ pc \in {"open", "loop", "final"} => calls = <<>>
           /\ pc = "done" => Len(calls) = 1 /\ FinalCall(1)
           /\ pc \in {"open", "loop", "final", "done"}

\* a short file, whose lines would not parse, ran to the end
C10_Witness ==
    /\ pc = "done"
    /\ Len(file) \in 1..HeaderLines
    /\ \E i \in 1..Len(file) : FailsParse(file[i])
    /\ \E i \in 1..Len(file) : ~FailsParse(file[i])
    /\ Len(calls) = 1

\* ------------------------------------------------------------------ C8, C9
\* <major>.<minor>.<patch>: digits, ".", digits, ".", digits and nothing else
IsVersion(v) ==
    \E d1, d2 \in 1..Len(v) :
        /\ 1 < d1 /\ d1 + 1 < d2 /\ d2 < Len(v)
        /\ \A i \in 1..Len(v) :
            IF i \in {d1, d2} THEN v[i] = "." ELSE v[i] \in Digits

\* the hyphens of n that are followed by a version reaching the end of n
VersionHyphens(n) ==
    {h \in 1..Len(n) : n[h] = "-" /\ IsVersion(SubSeq(n, h + 1, Len(n)))}

\* the whole name matches ^(.+)-(\d+\.\d+\.\d+)$
WholeMatch(n) == \E h \in VersionHyphens(n) : h > 1

LastVersionHyphen(n) ==
    CHOOSE h \in VersionHyphens(n) : \A g \in VersionHyphens(n) : g <= h

NameParsed == idx >= 1 /\ name # Unbound

\* C8 as stated: a name that does not match the whole pattern fails parsing
\* with a fatal error, and no checkout or tag call is issued for it.
C8_Original ==
    (NameParsed /\ ~WholeMatch(name))
    => /\ pc = "crashed"
       /\ error = "AttributeError"
       /\ \A j \in CallIdx : calls[j].entry # idx

\* C9: a well-formed name is split at the last hyphen that precedes the
\* trailing three-component version: version is that suffix, product is
\* all that precedes the hyphen, and product-version gives the name back.
C9_SplitAtLastVersionHyphen ==
    (NameParsed /\ WholeMatch(name))
    => /\ error # "AttributeError"
       /\ product = SubSeq(name, 1, LastVersionHyphen(name) - 1)
       /\ version = SubSeq(name, LastVersionHyphen(name) + 1, Len(name))
       /\ IsVersion(version)
       /\ product \o <<"-">> \o version = name

\* the name a-1.2.3-4.5.6 was split into a-1.2.3 and 4.5.6 and tagged
C9_Witness ==
    /\ name = NNested
    /\ product = <<"a", "-", "1", ".", "2", ".", "3">>
    /\ version = <<"4", ".", "5", ".", "6">>
    /\ Len(calls) = 2
    /\ calls[2].op = "tag"

=============================================================================
